---- MODULE Spec2Model ----
(***************************************************************************)
(* lazy_catch: a versioned graph of input cells (Var) and lazily           *)
(* recomputed memoized nodes (Val, SyncVal) read through a System.         *)
(*                                                                         *)
(* A host program creates a System, creates nodes against it, opens        *)
(* SystemModify windows to write cells, and reads nodes.  Each read is a   *)
(* call of SystemNode::get_value; a memoized node's get_value calls the    *)
(* node's update function, which reads its dependencies through            *)
(* Update::get (nested get_value calls) and ends in Update::update.        *)
(* Every thread therefore carries a call stack of get_value frames, and    *)
(* the steps of get_value are the actions of the model.                    *)
(***************************************************************************)
EXTENDS Integers, Sequences, FiniteSets, TLC

(***************************************************************************)
(* Bounds.                                                                 *)
(***************************************************************************)
\* Largest representable version: NonZeroU64::MAX scaled down.
VersionMax == 3
\* Number of threads of the host program.
NThreads == 2

Threads == 1..NThreads
\* The thread that owns the Systems and opens the mutation windows.
Main == CHOOSE t \in Threads : \A u \in Threads : t <= u
Systems == {1, 2}
\* Values the host program writes into cells.
Values == {0, 10}
\* The values it gives cell n: y is a cell that no memoized node reads.
Inputs(n) == IF n = "y" THEN {0} ELSE Values

\* Option<SystemVersion>::None.  SystemVersion wraps a NonZeroU64, so the
\* absent version is the integer 0, as AtomicOptionVersion stores it.
None == 0

(***************************************************************************)
(* The nodes a host program builds.  A Var is an input cell.  A Val or     *)
(* SyncVal is given by its update function: the nodes it reads through     *)
(* Update::get, in order, the commit method it ends with, and the value    *)
(* its producer closure computes.                                          *)
(***************************************************************************)
Nodes == {"x", "y", "a", "b", "s", "k", "c", "cs", "p", "q", "z",
          "d", "w", "zs", "e", "m"}

Kind(n) ==
    CASE n \in {"x", "y"} -> "Var"
      [] n \in {"a", "b", "c", "p", "z", "d", "w", "e", "m"} -> "Val"
      [] n \in {"s", "k", "cs", "q", "zs"} -> "SyncVal"

\* u.get(..) calls of the update function, in order.
Deps(n) ==
    CASE n = "a" -> <<"x">>
      [] n = "b" -> <<"a">>
      [] n = "s" -> <<"x">>
      [] n = "c" -> <<"c">>
      [] n = "cs" -> <<"cs">>
      [] n = "p" -> <<"q">>
      [] n = "q" -> <<"p">>
      [] n = "z" -> <<"x">>
      [] n = "d" -> <<"x", "y">>
      [] n = "w" -> <<"x">>
      [] n = "m" -> <<"e">>
      [] OTHER -> <<>>

\* The commit method the update function ends with.
CommitKind(n) ==
    CASE n \in {"a", "b", "s", "k", "c", "cs", "p", "q", "d", "e", "m"} -> "update"
      [] n = "w" -> "update_with_old"
      [] OTHER -> "none"

\* The producer closure: the new value from the values read and the old value
\* (Option<T>: <<>> is None, <<v>> is Some(v)).
Produce(n, vals, old) ==
    CASE n = "s" -> vals[1] + 2
      [] n \in {"k", "e"} -> 7
      [] n = "d" -> vals[1] + vals[2]
      [] n = "w" -> IF old = <<>> THEN vals[1] + 1 ELSE vals[1] + old[1]
      [] OTHER -> vals[1] + 1

\* Host programs: the nodes they build, their threads, their systems.  The
\* small ones: dependency cycles, nodes that never commit, a SyncVal without
\* dependencies read by two threads or through two systems, a Val without
\* dependencies and a Val that reads it, a cell and two systems.
SmallPrograms ==
    { [nodes |-> {"c"}, threads |-> {1}, systems |-> {1}],
      [nodes |-> {"cs"}, threads |-> Threads, systems |-> {1}],
      [nodes |-> {"p", "q"}, threads |-> {1}, systems |-> {1}],
      [nodes |-> {"x", "z"}, threads |-> {1}, systems |-> {1}],
      [nodes |-> {"k"}, threads |-> {1, 2}, systems |-> {1}],
      [nodes |-> {"k"}, threads |-> {1}, systems |-> {1, 2}],
      [nodes |-> {"zs"}, threads |-> {1}, systems |-> {1}],
      [nodes |-> {"e", "m"}, threads |-> {1}, systems |-> {1}],
      [nodes |-> {"x"}, threads |-> {1}, systems |-> {1, 2}] }

\* The host programs explored.
Programs ==
    SmallPrograms \cup
    { [nodes |-> {"x", "y", "a", "b"}, threads |-> {1}, systems |-> {1}],
      [nodes |-> {"x", "s"}, threads |-> Threads, systems |-> {1}],
      [nodes |-> {"x", "a"}, threads |-> {1}, systems |-> {1, 2}],
      [nodes |-> {"x", "y", "d"}, threads |-> {1}, systems |-> {1}],
      [nodes |-> {"x", "w"}, threads |-> {1}, systems |-> {1}] }

VARIABLES
    program,        \* the host program: its nodes, threads and systems
    version,        \* System.version, per system
    window,         \* per system: a SystemModify of it is alive
    system_id,      \* per node: the id of its system, 0 before it is created
    stored,         \* per node: the stored (version, value); version None = empty
    check_version,  \* per Val/SyncVal: check_version (None = 0)
    lock,           \* per Val/SyncVal: lock flag / Mutex state
    stack,          \* per thread: the get_value frames in progress
    result,         \* per thread: the outcome of its last finished call
    calls,          \* per node: the system version at which its update function was
                    \* last invoked, and the number of invocations at that version
    recomputed,     \* per node, when its update function last returned: the system
                    \* version, the stored pair, whether the producer was invoked
    wrote           \* per Var: the value the host last gave it, and the version of
                    \* the system when it did

vars == <<program, version, window, system_id, stored, check_version, lock,
          stack, result, calls, recomputed, wrote>>

Empty == [version |-> None, value |-> 0]
Unlocked == [locked |-> FALSE, poisoned |-> FALSE]
NoResult == [kind |-> "none", node |-> "", sys |-> 0, version |-> None, value |-> 0]
Ok(n, s, ver, val) == [kind |-> "ok", node |-> n, sys |-> s, version |-> ver, value |-> val]
Failed(reason, n, s) == [kind |-> reason, node |-> n, sys |-> s, version |-> None, value |-> 0]

Range(seq) == {seq[i] : i \in 1..Len(seq)}

RECURSIVE Reach(_)
\* Every node a read of the nodes in S may call get_value on.
Reach(S) ==
    LET S2 == S \cup UNION {Range(Deps(n)) : n \in S}
    IN IF S2 = S THEN S ELSE Reach(S2)

Top(t) == stack[t][Len(stack[t])]
Busy(t) == stack[t] # <<>>
At(t, pc) == Busy(t) /\ Top(t).pc = pc
SetTop(t, f) == [stack EXCEPT ![t] = [@ EXCEPT ![Len(@)] = f]]

Frame(n, s) ==
    [node |-> n, sys |-> s, pc |-> "enter", fast |-> FALSE,
     current_version |-> None, update_version |-> None, vals |-> <<>>]

(***************************************************************************)
(* Construction.                                                           *)
(***************************************************************************)
Init ==
    /\ program \in Programs
    /\ version = [s \in Systems |-> 1]
    /\ window = [s \in Systems |-> FALSE]
    /\ system_id = [n \in Nodes |-> 0]
    /\ stored = [n \in Nodes |-> Empty]
    /\ check_version = [n \in Nodes |-> None]
    /\ lock = [n \in Nodes |-> Unlocked]
    /\ stack = [t \in Threads |-> <<>>]
    /\ result = [t \in Threads |-> NoResult]
    /\ calls = [n \in Nodes |-> [at |-> None, count |-> 0]]
    /\ recomputed = [n \in Nodes |-> [at |-> None, pair |-> Empty, produced |-> FALSE]]
    /\ wrote = [n \in Nodes |-> Empty]

\* A shared borrow of system s can be taken: no SystemModify of s is alive.
Shared(s) == s \in program.systems /\ ~window[s]

\* An exclusive borrow of system s can be taken: no window and no read of s.
Exclusive(s) ==
    /\ Shared(s)
    /\ \A u \in Threads : \A i \in 1..Len(stack[u]) : stack[u][i].sys # s

\* Var::new: the (version, value) pair of a new cell.
new(system_version, v) == [version |-> system_version, value |-> v]

\* Var::new: the cell is stamped with the system's version.
VarNew(s, n, v) ==
    /\ n \in program.nodes /\ Kind(n) = "Var" /\ system_id[n] = 0
    /\ v \in Inputs(n)
    /\ Shared(s)
    /\ system_id' = [system_id EXCEPT ![n] = s]
    /\ stored' = [stored EXCEPT ![n] = new(version[s], v)]
    /\ wrote' = [wrote EXCEPT ![n] = [version |-> version[s], value |-> v]]
    /\ UNCHANGED <<program, version, window, check_version, lock, stack,
                   result, calls, recomputed>>

\* Val::new and SyncVal::new: no value, no checked version, unlocked.
ValNew(s, n) ==
    /\ n \in program.nodes /\ Kind(n) \in {"Val", "SyncVal"} /\ system_id[n] = 0
    /\ Shared(s)
    /\ system_id' = [system_id EXCEPT ![n] = s]
    /\ stored' = [stored EXCEPT ![n] = Empty]
    /\ check_version' = [check_version EXCEPT ![n] = None]
    /\ lock' = [lock EXCEPT ![n] = Unlocked]
    /\ UNCHANGED <<program, version, window, stack, result, calls, recomputed, wrote>>

(***************************************************************************)
(* Mutation windows.                                                       *)
(***************************************************************************)
\* Mutant of inc: the version advances by two.
inc_by_two(v) == IF v + 2 > VersionMax THEN None ELSE v + 2

\* Mutant of inc: wrapping_add in place of checked_add; the NonZeroU64 wraps.
inc_wrapping(v) == IF v + 1 > VersionMax THEN 1 ELSE v + 1

\* SystemVersion::inc: checked_add(1), None on overflow.
inc(v) == IF v + 1 > VersionMax THEN None ELSE v + 1

\* References handed out by reads of system s end before s is borrowed mutably.
Invalidate(s, r) ==
    [u \in Threads |->
        IF u = Main THEN r
        ELSE IF result[u].sys = s THEN NoResult ELSE result[u]]

\* System::modify: advance the version, hand out the SystemModify.
Modify(s) ==
    /\ ~Busy(Main)
    /\ Exclusive(s)
    /\ inc(version[s]) # None
    /\ version' = [version EXCEPT ![s] = inc(version[s])]
    /\ window' = [window EXCEPT ![s] = TRUE]
    /\ result' = Invalidate(s, NoResult)
    /\ UNCHANGED <<program, system_id, stored, check_version, lock, stack,
                   calls, recomputed, wrote>>

\* System::modify when checked_add overflows: unwrap panics.
ModifyOverflow(s) ==
    /\ ~Busy(Main)
    /\ Exclusive(s)
    /\ inc(version[s]) = None
    /\ result' = Invalidate(s, Failed("overflow", "", s))
    /\ UNCHANGED <<program, version, window, system_id, stored, check_version,
                   lock, stack, calls, recomputed, wrote>>

\* Mutant of modify: the cell is stamped with the version after the window's.
modify_stamps_next(cell, modify_version, v) ==
    [cell EXCEPT !.version = modify_version + 1, !.value = v]

\* Mutant of modify: the value is written, the version is not stamped.
modify_without_stamp(cell, modify_version, v) == [cell EXCEPT !.value = v]

\* Var::modify: the cell after *version = modify.version() and the caller's
\* write of v through the returned &mut.
modify(cell, modify_version, v) == [cell EXCEPT !.version = modify_version, !.value = v]

\* Var::modify, and the caller's write through the returned &mut.
VarModify(s, n, v) ==
    /\ window[s] /\ ~Busy(Main)
    /\ n \in program.nodes /\ Kind(n) = "Var" /\ system_id[n] = s
    /\ v \in Inputs(n)
    /\ stored' = [stored EXCEPT ![n] = modify(stored[n], version[s], v)]
    /\ wrote' = [wrote EXCEPT ![n] = [version |-> version[s], value |-> v]]
    /\ UNCHANGED <<program, version, window, system_id, check_version, lock,
                   stack, result, calls, recomputed>>

\* Var::modify with the window of another system: check_modify panics.
VarModifyMismatch(s, n) ==
    /\ window[s] /\ ~Busy(Main)
    /\ n \in program.nodes /\ Kind(n) = "Var" /\ system_id[n] \notin {0, s}
    /\ result' = [result EXCEPT ![Main] = Failed("mismatch", n, s)]
    /\ UNCHANGED <<program, version, window, system_id, stored, check_version,
                   lock, stack, calls, recomputed, wrote>>

\* The SystemModify is dropped.
ModifyDrop(s) ==
    /\ window[s] /\ ~Busy(Main)
    /\ window' = [window EXCEPT ![s] = FALSE]
    /\ UNCHANGED <<program, version, system_id, stored, check_version, lock,
                   stack, result, calls, recomputed, wrote>>

(***************************************************************************)
(* Reads.                                                                  *)
(***************************************************************************)
Created(n) == system_id[n] # 0

\* System::get: the host calls node.get_value(self).
Get(t, s, n) ==
    /\ t \in program.threads /\ ~Busy(t)
    /\ Shared(s)
    /\ n \in program.nodes
    /\ \A m \in Reach({n}) : Created(m)
    /\ stack' = [stack EXCEPT ![t] = <<Frame(n, s)>>]
    /\ result' = [result EXCEPT ![t] = NoResult]
    /\ UNCHANGED <<program, version, window, system_id, stored, check_version,
                   lock, calls, recomputed, wrote>>

\* The frame holds the MutexGuard of its SyncVal.
HoldsGuard(f) ==
    Kind(f.node) = "SyncVal" /\ f.pc \in {"recheck", "update", "publish", "unlock"}

\* A panic unwinds the thread's stack.  Dropping a MutexGuard while panicking
\* unlocks and poisons the Mutex; the lock flag of a Val is left as it is.
Unwind(t) ==
    [m \in Nodes |->
        IF \E i \in 1..Len(stack[t]) : stack[t][i].node = m /\ HoldsGuard(stack[t][i])
        THEN [locked |-> FALSE, poisoned |-> TRUE]
        ELSE lock[m]]

Panic(t, reason) ==
    /\ lock' = Unwind(t)
    /\ result' = [result EXCEPT ![t] = Failed(reason, stack[t][1].node, stack[t][1].sys)]
    /\ stack' = [stack EXCEPT ![t] = <<>>]

\* SystemId::check_system fails: assert_eq panics.
CheckSystemFail(t) ==
    /\ At(t, "enter")
    /\ system_id[Top(t).node] # Top(t).sys
    /\ Panic(t, "mismatch")
    /\ UNCHANGED <<program, version, window, system_id, stored, check_version,
                   calls, recomputed, wrote>>

\* Mutant of Entered: get_value does not call check_system.
Entered_without_check(t, kind) ==
    /\ At(t, "enter")
    /\ Kind(Top(t).node) = kind

\* get_value past self.system_id.check_system(system).
Entered(t, kind) ==
    /\ At(t, "enter")
    /\ Kind(Top(t).node) = kind
    /\ system_id[Top(t).node] = Top(t).sys

Stale(f) == check_version[f.node] # version[f.sys]

\* Var::get_value.
VarGetValue(t) ==
    /\ Entered(t, "Var")
    /\ stack' = SetTop(t, [Top(t) EXCEPT !.pc = "ret"])
    /\ UNCHANGED <<program, version, window, system_id, stored, check_version,
                   lock, result, calls, recomputed, wrote>>

\* Update::new, and the call of the update function.
BeginUpdate(t) ==
    /\ stack' = SetTop(t, [Top(t) EXCEPT !.pc = "update",
                               !.current_version = stored[Top(t).node].version,
                               !.update_version = None,
                               !.vals = <<>>])
    /\ calls' = [calls EXCEPT ![Top(t).node] =
                    IF @.at = version[Top(t).sys]
                    THEN [@ EXCEPT !.count = @ + 1]
                    ELSE [at |-> version[Top(t).sys], count |-> 1]]

\* Val::get_value, the node is fresh.
ValFresh(t) ==
    /\ Entered(t, "Val")
    /\ ~Stale(Top(t))
    /\ stack' = SetTop(t, [Top(t) EXCEPT !.pc = "ret", !.fast = TRUE])
    /\ UNCHANGED <<program, version, window, system_id, stored, check_version,
                   lock, result, calls, recomputed, wrote>>

\* Mutant of ValRecursion: a reentrant read skips the update and returns what
\* the node holds instead of panicking.
ValRecursion_returns_stored(t) ==
    /\ Entered(t, "Val")
    /\ Stale(Top(t))
    /\ lock[Top(t).node].locked
    /\ stack' = SetTop(t, [Top(t) EXCEPT !.pc = "ret"])
    /\ UNCHANGED <<program, version, window, system_id, stored, check_version,
                   lock, result, calls, recomputed, wrote>>

\* Val::get_value, stale and the lock flag is set: panic.
ValRecursion(t) ==
    /\ Entered(t, "Val")
    /\ Stale(Top(t))
    /\ lock[Top(t).node].locked
    /\ Panic(t, "recursion")
    /\ UNCHANGED <<program, version, window, system_id, stored, check_version,
                   calls, recomputed, wrote>>

\* Val::get_value, stale: set the lock flag and call the update function.
ValUpdate(t) ==
    /\ Entered(t, "Val")
    /\ Stale(Top(t))
    /\ ~lock[Top(t).node].locked
    /\ lock' = [lock EXCEPT ![Top(t).node].locked = TRUE]
    /\ BeginUpdate(t)
    /\ UNCHANGED <<program, version, window, system_id, stored, check_version,
                   result, recomputed, wrote>>

\* Mutant of ValPublish: check_version is not set after the update.
ValPublish_without_check_version(t) ==
    /\ At(t, "publish")
    /\ Kind(Top(t).node) = "Val"
    /\ lock' = [lock EXCEPT ![Top(t).node].locked = FALSE]
    /\ stack' = SetTop(t, [Top(t) EXCEPT !.pc = "ret"])
    /\ UNCHANGED <<program, version, window, system_id, stored, check_version,
                   result, calls, recomputed, wrote>>

\* Val::get_value after the update function: check_version and the lock flag.
ValPublish(t) ==
    /\ At(t, "publish")
    /\ Kind(Top(t).node) = "Val"
    /\ check_version' = [check_version EXCEPT ![Top(t).node] = version[Top(t).sys]]
    /\ lock' = [lock EXCEPT ![Top(t).node].locked = FALSE]
    /\ stack' = SetTop(t, [Top(t) EXCEPT !.pc = "ret"])
    /\ UNCHANGED <<program, version, window, system_id, stored, result, calls,
                   recomputed, wrote>>

\* SyncVal::get_value, the first acquire load of check_version.
SyncCheck(t) ==
    /\ Entered(t, "SyncVal")
    /\ stack' = SetTop(t, IF Stale(Top(t))
                          THEN [Top(t) EXCEPT !.pc = "try_lock"]
                          ELSE [Top(t) EXCEPT !.pc = "ret", !.fast = TRUE])
    /\ UNCHANGED <<program, version, window, system_id, stored, check_version,
                   lock, result, calls, recomputed, wrote>>

\* Mutex::try_lock returns Err when the Mutex is locked or poisoned.
TryLockErr(n) == lock[n].locked \/ lock[n].poisoned

\* SyncVal::get_value, try_lock fails: expect panics.
SyncTryLockFail(t) ==
    /\ At(t, "try_lock")
    /\ TryLockErr(Top(t).node)
    /\ Panic(t, "recursion or poison")
    /\ UNCHANGED <<program, version, window, system_id, stored, check_version,
                   calls, recomputed, wrote>>

\* Mutant of SyncTryLock: the MutexGuard is dropped at once (let _ = ...), so
\* the Mutex is not held during the update.
SyncTryLock_guard_dropped(t) ==
    /\ At(t, "try_lock")
    /\ ~TryLockErr(Top(t).node)
    /\ stack' = SetTop(t, [Top(t) EXCEPT !.pc = "recheck"])
    /\ UNCHANGED <<program, version, window, system_id, stored, check_version,
                   lock, result, calls, recomputed, wrote>>

\* SyncVal::get_value, try_lock succeeds.
SyncTryLock(t) ==
    /\ At(t, "try_lock")
    /\ ~TryLockErr(Top(t).node)
    /\ lock' = [lock EXCEPT ![Top(t).node].locked = TRUE]
    /\ stack' = SetTop(t, [Top(t) EXCEPT !.pc = "recheck"])
    /\ UNCHANGED <<program, version, window, system_id, stored, check_version,
                   result, calls, recomputed, wrote>>

\* Mutant of SyncUpdate: the store of check_version is not ordered after the
\* write of the value and takes effect before the update function runs.
SyncUpdate_publishes_first(t) ==
    /\ At(t, "recheck")
    /\ Stale(Top(t))
    /\ BeginUpdate(t)
    /\ check_version' = [check_version EXCEPT ![Top(t).node] = version[Top(t).sys]]
    /\ UNCHANGED <<program, version, window, system_id, stored,
                   lock, result, recomputed, wrote>>

\* SyncVal::get_value, the second load under the lock: still stale.
SyncUpdate(t) ==
    /\ At(t, "recheck")
    /\ Stale(Top(t))
    /\ BeginUpdate(t)
    /\ UNCHANGED <<program, version, window, system_id, stored, check_version,
                   lock, result, recomputed, wrote>>

\* SyncVal::get_value, the second load under the lock: another thread was first.
SyncRecheckFresh(t) ==
    /\ At(t, "recheck")
    /\ ~Stale(Top(t))
    /\ stack' = SetTop(t, [Top(t) EXCEPT !.pc = "unlock"])
    /\ UNCHANGED <<program, version, window, system_id, stored, check_version,
                   lock, result, calls, recomputed, wrote>>

\* SyncVal::get_value, the release store of check_version.
SyncPublish(t) ==
    /\ At(t, "publish")
    /\ Kind(Top(t).node) = "SyncVal"
    /\ check_version' = [check_version EXCEPT ![Top(t).node] = version[Top(t).sys]]
    /\ stack' = SetTop(t, [Top(t) EXCEPT !.pc = "unlock"])
    /\ UNCHANGED <<program, version, window, system_id, stored, lock, result,
                   calls, recomputed, wrote>>

\* SyncVal::get_value, drop(lock).
SyncUnlock(t) ==
    /\ At(t, "unlock")
    /\ lock' = [lock EXCEPT ![Top(t).node].locked = FALSE]
    /\ stack' = SetTop(t, [Top(t) EXCEPT !.pc = "ret"])
    /\ UNCHANGED <<program, version, window, system_id, stored, check_version,
                   result, calls, recomputed, wrote>>

(***************************************************************************)
(* The update transaction.                                                 *)
(***************************************************************************)
\* Update::get, the call node.get_value(self.system).
UpdateGet(t) ==
    /\ At(t, "update")
    /\ Len(Top(t).vals) < Len(Deps(Top(t).node))
    /\ stack' = [stack EXCEPT ![t] =
                    Append(@, Frame(Deps(Top(t).node)[Len(Top(t).vals) + 1], Top(t).sys))]
    /\ UNCHANGED <<program, version, window, system_id, stored, check_version,
                   lock, result, calls, recomputed, wrote>>

\* Mutant of get: the version of the last node read replaces the accumulated one.
get_takes_last(old, ver) == ver

\* Mutant of get: the version of the first node read is kept.
get_keeps_first(old, ver) == IF old # None THEN old ELSE ver

\* Update::get, the new update_version after reading a node of that version.
get(old, ver) ==
    IF old # None
    THEN IF old < ver THEN ver ELSE old
    ELSE ver

\* Mutant of unwrap_or: without a read the commit uses the first version of a
\* system instead of its current one.
unwrap_or_first_version(opt, default) == IF opt # None THEN opt ELSE inc(None)

\* Update::update: update_version.unwrap_or(system.version()).
unwrap_or(opt, default) == IF opt # None THEN opt ELSE default

\* Mutant of skip: the commit never returns early.
skip_never(current_version, update_version) == FALSE

\* Mutant of skip: any node that has a value keeps it.
skip_whenever_committed(current_version, update_version) == current_version # None

\* Mutant of skip: < in place of <=.
skip_only_if_older(current_version, update_version) ==
    current_version # None /\ update_version < current_version

\* Update::update returns early: the node has a value at least as new.
skip(current_version, update_version) ==
    current_version # None /\ update_version <= current_version

\* Update::update: the receiver after the call.
update(n, f, sysver, receiver) ==
    LET update_version == unwrap_or(f.update_version, sysver)
    IN IF skip(f.current_version, update_version)
       THEN receiver
       ELSE [version |-> update_version, value |-> Produce(n, f.vals, receiver)]

\* Update::update_with_old: self.receiver.take().map(|(_, v)| v).
take(receiver) == IF receiver.version = None THEN <<>> ELSE <<receiver.value>>

\* Mutant of update_with_old: the producer is given None, as if the receiver
\* had been emptied before the old value was taken.
update_with_old_gives_none(n, f, sysver, receiver) ==
    LET update_version == unwrap_or(f.update_version, sysver)
    IN IF skip(f.current_version, update_version)
       THEN receiver
       ELSE [version |-> update_version, value |-> Produce(n, f.vals, <<>>)]

\* Update::update_with_old: the receiver after the call.
update_with_old(n, f, sysver, receiver) ==
    LET update_version == unwrap_or(f.update_version, sysver)
    IN IF skip(f.current_version, update_version)
       THEN receiver
       ELSE [version |-> update_version, value |-> Produce(n, f.vals, take(receiver))]

\* The update function has read its dependencies and commits; it returns.
UpdateCommit(t) ==
    LET f == Top(t)
        n == f.node
        receiver == CASE CommitKind(n) = "update" ->
                            update(n, f, version[f.sys], stored[n])
                      [] CommitKind(n) = "update_with_old" ->
                            update_with_old(n, f, version[f.sys], stored[n])
                      [] OTHER -> stored[n]
        ran == /\ CommitKind(n) # "none"
               /\ ~skip(f.current_version, unwrap_or(f.update_version, version[f.sys]))
    IN /\ At(t, "update")
       /\ Len(f.vals) = Len(Deps(n))
       /\ stored' = [stored EXCEPT ![n] = receiver]
       /\ recomputed' = [recomputed EXCEPT ![n] =
                            [at |-> version[f.sys], pair |-> receiver, produced |-> ran]]
       /\ stack' = SetTop(t, [f EXCEPT !.pc = "publish"])
       /\ UNCHANGED <<program, version, window, system_id, check_version, lock,
                      result, calls, wrote>>

\* Mutant of UnwrapFail: an empty node yields a default instead of panicking.
UnwrapFail_returns_default(t) ==
    /\ At(t, "ret")
    /\ stored[Top(t).node].version = None
    /\ Len(stack[t]) = 1
    /\ stack' = [stack EXCEPT ![t] = <<>>]
    /\ result' = [result EXCEPT ![t] = Ok(Top(t).node, Top(t).sys, version[Top(t).sys], 0)]
    /\ UNCHANGED <<program, version, window, system_id, stored, check_version,
                   lock, calls, recomputed, wrote>>

\* get_value ends: .as_ref().unwrap() on an empty node panics.
UnwrapFail(t) ==
    /\ At(t, "ret")
    /\ stored[Top(t).node].version = None
    /\ Panic(t, "unwrap")
    /\ UNCHANGED <<program, version, window, system_id, stored, check_version,
                   calls, recomputed, wrote>>

\* get_value returns (version, &value) to Update::get, which records the version.
UpdateGetReturn(t) ==
    LET k == Len(stack[t])
        got == stored[Top(t).node]
        caller == stack[t][k - 1]
    IN /\ At(t, "ret")
       /\ k > 1
       /\ got.version # None
       /\ stack' = [stack EXCEPT ![t] =
                       Append(SubSeq(@, 1, k - 2),
                              [caller EXCEPT
                                 !.update_version = get(caller.update_version, got.version),
                                 !.vals = Append(@, got.value)])]
       /\ UNCHANGED <<program, version, window, system_id, stored, check_version,
                      lock, result, calls, recomputed, wrote>>

\* get_value returns (version, &value) to System::get.
GetReturn(t) ==
    LET f == Top(t)
        got == stored[f.node]
    IN /\ At(t, "ret")
       /\ Len(stack[t]) = 1
       /\ got.version # None
       /\ stack' = [stack EXCEPT ![t] = <<>>]
       /\ result' = [result EXCEPT ![t] = Ok(f.node, f.sys, got.version, got.value)]
       /\ UNCHANGED <<program, version, window, system_id, stored, check_version,
                      lock, calls, recomputed, wrote>>

(***************************************************************************)
(* The program.                                                            *)
(***************************************************************************)
Next ==
    \/ \E s \in Systems, n \in Nodes, v \in Values : VarNew(s, n, v)
    \/ \E s \in Systems, n \in Nodes : ValNew(s, n)
    \/ \E s \in Systems : Modify(s)
    \/ \E s \in Systems : ModifyOverflow(s)
    \/ \E s \in Systems, n \in Nodes, v \in Values : VarModify(s, n, v)
    \/ \E s \in Systems, n \in Nodes : VarModifyMismatch(s, n)
    \/ \E s \in Systems : ModifyDrop(s)
    \/ \E t \in Threads, s \in Systems, n \in Nodes : Get(t, s, n)
    \/ \E t \in Threads : CheckSystemFail(t)
    \/ \E t \in Threads : VarGetValue(t)
    \/ \E t \in Threads : ValFresh(t)
    \/ \E t \in Threads : ValRecursion(t)
    \/ \E t \in Threads : ValUpdate(t)
    \/ \E t \in Threads : ValPublish(t)
    \/ \E t \in Threads : SyncCheck(t)
    \/ \E t \in Threads : SyncTryLockFail(t)
    \/ \E t \in Threads : SyncTryLock(t)
    \/ \E t \in Threads : SyncUpdate(t)
    \/ \E t \in Threads : SyncRecheckFresh(t)
    \/ \E t \in Threads : SyncPublish(t)
    \/ \E t \in Threads : SyncUnlock(t)
    \/ \E t \in Threads : UpdateGet(t)
    \/ \E t \in Threads : UpdateCommit(t)
    \/ \E t \in Threads : UnwrapFail(t)
    \/ \E t \in Threads : UpdateGetReturn(t)
    \/ \E t \in Threads : GetReturn(t)

Spec == Init /\ [][Next]_vars

(***************************************************************************)
(* Properties.                                                             *)
(***************************************************************************)
Frames == {<<t, i>> \in Threads \X (1..(Cardinality(Nodes) + 1)) : i <= Len(stack[t])}
OkResult(t, n) == result[t].kind = "ok" /\ result[t].node = n

\* C1: with a committing x+1 and b committing a+1, after any sequence of windows
\* writing x and of reads, a read of a returns x+1 and a read of b returns x+2;
\* in a program with one system these reads never fail.
C1_ReadsFollowInput ==
    \A t \in Threads :
        /\ OkResult(t, "a") => result[t].value = stored["x"].value + 1
        /\ OkResult(t, "b") => result[t].value = stored["x"].value + 2
        /\ (result[t].node \in {"a", "b"} /\ program.systems = {1})
              => result[t].kind \in {"none", "ok"}

\* C1 witness: after a window wrote x = 10, a was recomputed to 11 and the read
\* of b returned 12.
C1_Witness ==
    /\ stored["x"] = [version |-> 2, value |-> 10]
    /\ stored["a"].value = 11
    /\ \E t \in Threads : OkResult(t, "b") /\ result[t].value = 12

\* Memoized nodes a read of n evaluates.
Memos(n) == {m \in Reach({n}) : Kind(m) # "Var"}

\* C2: the update function of a node is invoked at most once per system version,
\* and once a read of the node has returned at a version it was invoked exactly
\* once at that version and check_version is that version.
C2_OncePerVersion ==
    /\ \A n \in Nodes : calls[n].count <= 1
    /\ \A t \in Threads :
          result[t].kind = "ok" =>
             \A m \in Memos(result[t].node) :
                /\ calls[m] = [at |-> version[result[t].sys], count |-> 1]
                /\ check_version[m] = version[result[t].sys]

\* C2 witness: two threads have read the SyncVal s after a window; one invocation.
C2_Witness ==
    /\ version[1] = 2
    /\ \A t \in {1, 2} : OkResult(t, "s")
    /\ calls["s"] = [at |-> 2, count |-> 1]

\* Cells a node transitively reads.
Cells(n) == {m \in Reach({n}) : Kind(m) = "Var"}
\* Nodes whose values are computed from cells only.
FromCells == {n \in Nodes : Kind(n) # "Var" /\ \A m \in Memos(n) : Deps(m) # <<>>}
\* No window wrote a cell that n reads since n was last checked.
Unwritten(n) ==
    /\ check_version[n] # None
    /\ \A c \in Cells(n) : stored[c].version <= check_version[n]
\* Thread t is in the step in which the update function commits and returns.
Commits(t) ==
    /\ At(t, "update")
    /\ Len(stack'[t]) = Len(stack[t])
    /\ stack'[t][Len(stack[t])].pc = "publish"

\* C3: when no window wrote a cell the node reads since its last check, the
\* update function runs but its commit leaves the stored (version, value)
\* unchanged and does not invoke the producer.
C3_EarlyCutoff ==
    [][\A t \in Threads :
          (Commits(t) /\ Top(t).node \in FromCells /\ Unwritten(Top(t).node)) =>
             /\ stored'[Top(t).node] = stored[Top(t).node]
             /\ ~recomputed'[Top(t).node].produced
             /\ calls[Top(t).node].at = version[Top(t).sys]]_vars

\* C3 witness: two windows later, one of which wrote y, b's update function has
\* run at version 3 without producing; b keeps the pair committed at version 1.
C3_Witness ==
    /\ version[1] = 3
    /\ stored["y"].version = 2
    /\ \E t \in Threads : At(t, "publish") /\ Top(t).node = "b" /\ Len(stack[t]) = 1
    /\ recomputed["b"] = [at |-> 3, pair |-> stored["b"], produced |-> FALSE]
    /\ stored["b"].version = 1
    /\ check_version["b"] = 1

\* C4: a system starts at version 1; a step that opens a window advances the
\* version of that system by exactly 1, and no other step changes a version.
C4_VersionClock ==
    /\ \A s \in Systems : version[s] = 1
    /\ [][\A s \in Systems :
             IF ~window[s] /\ window'[s]
             THEN version'[s] = version[s] + 1
             ELSE version'[s] = version[s]]_vars

\* C4 witness: the second window is open, nodes were created and read.
C4_Witness ==
    /\ version[1] = 3 /\ window[1]
    /\ stored["a"].version = 1 /\ stored["x"].version = 2

\* C5: the committed version of every cell and of every memoized node with a
\* value is at most the version of its system, and so is the version a read returns.
C5_CommittedAtMostCurrent ==
    /\ \A n \in Nodes : Created(n) => stored[n].version <= version[system_id[n]]
    /\ \A t \in Threads : result[t].kind = "ok" => result[t].version <= version[result[t].sys]

\* C5 witness: b committed at version 2 and was read at version 3.
C5_Witness ==
    /\ version[1] = 3
    /\ stored["x"].version = 2
    /\ \E t \in Threads : OkResult(t, "b") /\ result[t].version = 2

\* C6: a read of a cell returns the value the host last wrote or created it with,
\* and the version the system had in that window or at the creation.
C6_ReadYourWrites ==
    \A t \in Threads :
        (result[t].kind = "ok" /\ Kind(result[t].node) = "Var") =>
            /\ result[t].value = wrote[result[t].node].value
            /\ result[t].version = wrote[result[t].node].version

\* C6 witness: x was written 10 in the window of version 2 and read at version 3;
\* y was never written and is read with its creation version.
C6_Witness ==
    /\ version[1] = 3 /\ ~window[1]
    /\ \E t \in Threads : result[t] = Ok("x", 1, 2, 10)
    /\ stored["y"].version = 1

\* C7: concurrent reads of the stale SyncVal s all complete, observe the same
\* committed (version, value), and the update function runs once.
C7_AllReadersComplete ==
    /\ \A t \in Threads : result[t].node = "s" => result[t].kind \in {"none", "ok"}
    /\ \A t, u \in Threads : (OkResult(t, "s") /\ OkResult(u, "s")) => result[t] = result[u]
    /\ calls["s"].count <= 1

\* Frames whose update function is running: they hold &mut to the node's storage.
Recomputing(n) == {fr \in Frames : stack[fr[1]][fr[2]].node = n /\ stack[fr[1]][fr[2]].pc = "update"}

\* C8: at most one frame of one thread is inside the update function of a SyncVal.
C8_OneRecomputation ==
    \A n \in Nodes : Kind(n) = "SyncVal" => Cardinality(Recomputing(n)) <= 1

\* C8 witness: thread 1 is inside the update function of s while thread 2 has
\* found s stale and is about to try the lock.
C8_Witness ==
    /\ Recomputing("s") = {<<1, 1>>}
    /\ At(2, "try_lock") /\ Top(2).node = "s"

\* C9: a thread on the fast path of a SyncVal (it loaded check_version equal to
\* the system version) reads the storage while no update function is running on
\* the node, and what it reads is the pair the storage held when the update
\* function of that version returned.
C9_Publication ==
    \A t \in Threads :
        (At(t, "ret") /\ Top(t).fast /\ Kind(Top(t).node) = "SyncVal") =>
            /\ Recomputing(Top(t).node) = {}
            /\ recomputed[Top(t).node].at = version[Top(t).sys]
            /\ recomputed[Top(t).node].pair = stored[Top(t).node]

\* C9 witness: thread 1 has published s at version 2 and not yet unlocked;
\* thread 2 took the fast path and is about to read the storage.
C9_Witness ==
    /\ version[1] = 2
    /\ At(1, "unlock") /\ Top(1).node = "s" /\ lock["s"].locked
    /\ At(2, "ret") /\ Top(2).node = "s" /\ Top(2).fast
    /\ stored["s"] = [version |-> 2, value |-> 12]

\* The steps of get_value of thread t.
Step(t) ==
    \/ CheckSystemFail(t) \/ VarGetValue(t)
    \/ ValFresh(t) \/ ValRecursion(t) \/ ValUpdate(t) \/ ValPublish(t)
    \/ SyncCheck(t) \/ SyncTryLockFail(t) \/ SyncTryLock(t) \/ SyncUpdate(t)
    \/ SyncRecheckFresh(t) \/ SyncPublish(t) \/ SyncUnlock(t)
    \/ UpdateGet(t) \/ UpdateCommit(t) \/ UnwrapFail(t)
    \/ UpdateGetReturn(t) \/ GetReturn(t)

\* The small host programs, where a thread inside a call keeps running.
FairInit == Init /\ program \in SmallPrograms
FairSpec == FairInit /\ [][Next]_vars /\ \A t \in Threads : WF_vars(Step(t))

\* The node's update function reads the node, directly or through other nodes.
OnCycle(n) == n \in Reach(Range(Deps(n)))
RecursionFailures == {"recursion", "recursion or poison"}

\* C10: a read of a node on a dependency cycle ends, and it ends in the
\* reentrancy failure; no node is recomputed inside its own recomputation.
C10_CycleDetected ==
    /\ [](\A t \in Threads :
             (result[t].kind # "none" /\ result[t].node # "" /\ OnCycle(result[t].node))
                => result[t].kind \in RecursionFailures)
    /\ [](\A n \in Nodes : Cardinality(Recomputing(n)) <= 1)
    /\ \A t \in Threads :
          (Busy(t) /\ OnCycle(stack[t][1].node)) ~> (~Busy(t) /\ result[t].kind \in RecursionFailures)

\* C10 witness: the read of p, which reads q, which reads p, failed.
C10_Witness ==
    /\ result[1] = Failed("recursion", "p", 1)
    /\ lock["q"].poisoned

\* C11: a node is never read successfully through a system other than its own;
\* a get_value call with the wrong system can only end in the mismatch panic; a
\* cell is only written through a window of its own system; and the step that
\* fails with the mismatch changes no node's stored pair or check_version and
\* leaves the guard of the node whose check failed as it was.
C11_ContextMismatch ==
    /\ [](\A t \in Threads :
             result[t].kind = "ok" => system_id[result[t].node] = result[t].sys)
    /\ [][/\ \A t \in Threads :
               (At(t, "enter") /\ system_id[Top(t).node] # Top(t).sys
                  /\ stack'[t] # stack[t])
                  => /\ result'[t].kind = "mismatch"
                     /\ stack'[t] = <<>>
          /\ \A t \in Threads :
               (result'[t].kind = "mismatch" /\ result'[t] # result[t])
                  => /\ stored' = stored
                     /\ check_version' = check_version
                     /\ version' = version
                     /\ Busy(t) => lock'[Top(t).node] = lock[Top(t).node]
                     /\ ~Busy(t) => lock' = lock
          /\ \A n \in Nodes :
               (Kind(n) = "Var" /\ Created(n) /\ stored'[n] # stored[n])
                  => window[system_id[n]]]_vars

\* C11 witness: the SyncVal k of system 1 was read and holds a value; the read
\* of k through system 2 failed and left k as it was.
C11_Witness ==
    /\ system_id["k"] = 1
    /\ result[1] = Failed("mismatch", "k", 2)
    /\ stored["k"] = [version |-> 1, value |-> 7]
    /\ check_version["k"] = 1
    /\ lock["k"] = Unlocked

\* C12: the read of a SyncVal fails on its lock only when the lock is held by
\* the reading thread's own call path, that is, only for a node whose update
\* function reads the node again; a reader never fails because another thread
\* holds the lock.
C12_LockFailureOnlyReentrant ==
    \A t \in Threads :
        (result[t].kind = "recursion or poison" /\ Kind(result[t].node) = "SyncVal")
            => OnCycle(result[t].node)

\* C13: a version stays within 1..VersionMax and never decreases; at VersionMax
\* no window opens; System::modify fails with the overflow panic only at
\* VersionMax, and the failed call leaves every version and window unchanged.
C13_VersionOverflow ==
    /\ [](\A s \in Systems : version[s] \in 1..VersionMax)
    /\ [][/\ \A s \in Systems : version'[s] >= version[s]
          /\ \A s \in Systems :
               version[s] = VersionMax => (version'[s] = VersionMax /\ (window'[s] => window[s]))
          /\ \A s \in Systems :
               (result'[Main] = Failed("overflow", "", s) /\ result'[Main] # result[Main])
                  => /\ version[s] = VersionMax
                     /\ version' = version
                     /\ window' = window
                     /\ stored' = stored]_vars

\* C13 witness: after windows up to the largest version, System::modify failed;
\* the cell written in the last window keeps its version.
C13_Witness ==
    /\ version[1] = VersionMax
    /\ result[Main] = Failed("overflow", "", 1)
    /\ ~window[1]
    /\ stored["x"].version = VersionMax

\* The largest of a non-empty set of versions.
MaxVersion(S) == CHOOSE v \in S : \A u \in S : u <= v
\* The effective version of a commit of n: the largest committed version of the
\* nodes its update function read, the system's version if it read none.
EffectiveVersion(n, s) ==
    IF Deps(n) = <<>> THEN version[s]
    ELSE MaxVersion({stored[m].version : m \in Range(Deps(n))})
\* The values the update function of n read.
ReadValues(n) == [i \in 1..Len(Deps(n)) |-> stored[Deps(n)[i]].value]

RECURSIVE AfterGets(_, _)
\* update_version after Update::get of nodes with the versions vs, in order.
AfterGets(update_version, vs) ==
    IF vs = <<>> THEN update_version
    ELSE AfterGets(get(update_version, Head(vs)), Tail(vs))

\* Versions of the nodes read by a transaction: none, one or two reads.
ReadVersions == UNION {[1..k -> 1..VersionMax] : k \in 0..Len(Deps("d"))}

\* Update::update against the rule, for every combination of versions read,
\* previous version (None included) and system version.
UpdateFollowsRule ==
    \A vs \in ReadVersions, prev \in 0..VersionMax, sysver \in 1..VersionMax :
        LET f == [Frame("k", 1) EXCEPT !.current_version = prev,
                                       !.update_version = AfterGets(None, vs)]
            receiver == IF prev = None THEN Empty ELSE [version |-> prev, value |-> 5]
            effective == IF vs = <<>> THEN sysver ELSE MaxVersion(Range(vs))
        IN update("k", f, sysver, receiver) =
              IF prev # None /\ effective <= prev
              THEN receiver
              ELSE [version |-> effective, value |-> Produce("k", <<>>, <<>>)]

\* C14: a commit through Update::update uses as effective version the largest
\* committed version of the nodes read, or the system's version if none was
\* read; with a previous version at least the effective one nothing is stored
\* and the producer is not invoked, otherwise the stored pair becomes
\* (effective version, produced value).  Checked on Update::update for every
\* combination of versions, and on every commit step of the programs.
C14_CommitVersionRule ==
    [][\A t \in Threads :
         (Commits(t) /\ CommitKind(Top(t).node) = "update") =>
            LET n == Top(t).node
                effective == EffectiveVersion(n, Top(t).sys)
            IN /\ UpdateFollowsRule
               /\ IF stored[n].version # None /\ effective <= stored[n].version
                  THEN /\ stored'[n] = stored[n]
                       /\ ~recomputed'[n].produced
                  ELSE /\ stored'[n] = [version |-> effective,
                                       value |-> Produce(n, ReadValues(n), <<>>)]
                       /\ recomputed'[n].produced]_vars

\* C14 witness: d read x (written in the window of version 2) and then y
\* (written in the window of version 3) and committed at version 3, replacing
\* the pair it committed at version 1.
C14_Witness ==
    /\ stored["x"] = [version |-> 2, value |-> 10]
    /\ stored["y"].version = 3
    /\ recomputed["d"] = [at |-> 3, pair |-> [version |-> 3, value |-> 10], produced |-> TRUE]
    /\ calls["d"] = [at |-> 3, count |-> 1]
    /\ \E t \in Threads : OkResult(t, "d") /\ result[t].version = 3

\* The previously stored value as the producer of update_with_old must get it.
Previous(pair) == IF pair.version = None THEN <<>> ELSE <<pair.value>>

\* Update::update_with_old against Update::update and the rule, for every
\* transaction state: accumulated version (None included), previous version
\* (None included), system version.
UpdateWithOldAgrees ==
    \A update_version \in 0..VersionMax, prev \in 0..VersionMax, sysver \in 1..VersionMax :
        LET f == [Frame("w", 1) EXCEPT !.current_version = prev,
                                       !.update_version = update_version,
                                       !.vals = <<10>>]
            receiver == IF prev = None THEN Empty ELSE [version |-> prev, value |-> 5]
            with_old == update_with_old("w", f, sysver, receiver)
            plain == update("a", f, sysver, receiver)
        IN /\ with_old.version = plain.version
           /\ (with_old = receiver) <=> (plain = receiver)
           /\ with_old # receiver =>
                 with_old.value = Produce("w", f.vals, Previous(receiver))

\* C15: update_with_old skips exactly when update skips and stores the same
\* version; when it commits the producer gets the previously stored value
\* (None on the first computation), when it skips the producer is not invoked
\* and the stored pair stays.  Checked on the operator for every transaction
\* state, and on every commit step of w in the programs.
C15_UpdateWithOld ==
    [][\A t \in Threads :
         (Commits(t) /\ CommitKind(Top(t).node) = "update_with_old") =>
            LET n == Top(t).node
                effective == EffectiveVersion(n, Top(t).sys)
            IN /\ UpdateWithOldAgrees
               /\ stored'[n].version =
                     update("a", Top(t), version[Top(t).sys], stored[n]).version
               /\ IF stored[n].version # None /\ effective <= stored[n].version
                  THEN /\ stored'[n] = stored[n]
                       /\ ~recomputed'[n].produced
                  ELSE /\ stored'[n] = [version |-> effective,
                                       value |-> Produce(n, ReadValues(n), Previous(stored[n]))]
                       /\ recomputed'[n].produced]_vars

\* C15 witness: w committed 11 at version 1 (no old value), the window of
\* version 2 wrote x = 10 and w committed 10 + 11; at version 3 x was not
\* written and the commit of w skipped.
C15_Witness ==
    /\ version[1] = 3
    /\ stored["x"] = [version |-> 2, value |-> 10]
    /\ stored["w"] = [version |-> 2, value |-> 21]
    /\ recomputed["w"] = [at |-> 3, pair |-> stored["w"], produced |-> FALSE]
    /\ \E t \in Threads : result[t] = Ok("w", 1, 2, 21)

\* The frame is between setting and resetting the guard of its node: the lock
\* flag of a Val (val.rs:41-45), the MutexGuard of a SyncVal (val.rs:104-113).
InRecomputation(f) ==
    \/ HoldsGuard(f)
    \/ Kind(f.node) = "Val" /\ f.pc \in {"update", "publish"}

\* C16: the guard of a memoized node is set only while a call is between
\* setting and resetting it, and the Mutex of a SyncVal is never left poisoned:
\* after an aborted recomputation no node stays locked, so a later read does
\* not meet the reentrancy failure while nothing is recomputing the node.
C16_GuardReset ==
    \A n \in Nodes :
        (lock[n].locked \/ lock[n].poisoned) =>
            \E fr \in Frames :
                stack[fr[1]][fr[2]].node = n /\ InRecomputation(stack[fr[1]][fr[2]])

\* Memoized nodes whose update function returns without committing.
NeverCommits == {n \in Nodes : Kind(n) # "Var" /\ CommitKind(n) = "none"}

\* C17: a node whose update function never commits never holds a value; every
\* finished read of it has failed on the empty storage, the first one at a
\* version after running the update function and setting check_version, every
\* further one at that version on the fast path.
C17_NoCommitNoValue ==
    /\ \A n \in NeverCommits : stored[n] = Empty
    /\ \A t \in Threads :
          result[t].node \in NeverCommits =>
             /\ result[t].kind \in {"none", "unwrap"}
             /\ result[t].kind = "unwrap" =>
                   /\ check_version[result[t].node] = version[result[t].sys]
                   /\ calls[result[t].node] = [at |-> version[result[t].sys], count |-> 1]

\* C17 witness: the first read of z at version 2 ran the update function and
\* failed; the second read at version 2 took the fast path and is about to fail.
C17_Witness ==
    /\ version[1] = 2
    /\ At(1, "ret") /\ Top(1).node = "z" /\ Top(1).fast
    /\ calls["z"] = [at |-> 2, count |-> 1]
    /\ stored["z"] = Empty

\* The node was checked at the current version of its system and holds a value.
Fresh(n) ==
    /\ Kind(n) # "Var" /\ Created(n)
    /\ check_version[n] = version[system_id[n]]
    /\ stored[n].version # None

\* C18: a fresh memoized node with a value has a committed version at least the
\* committed version of every node its update function reads.
C18_FreshAtLeastDependencies ==
    \A n \in Nodes :
        Fresh(n) => \A m \in Range(Deps(n)) : stored[n].version >= stored[m].version

\* C18 witness: d, which reads x and y, is fresh at version 3; x was written in
\* the window of version 3 and y in the window of version 2.
C18_Witness ==
    /\ version[1] = 3 /\ ~window[1]
    /\ Fresh("d")
    /\ stored["x"].version = 3
    /\ stored["y"].version = 2
    /\ stored["d"].version = 3
    /\ recomputed["d"].at = 3

\* C19: the committed version of a node never decreases; the stored pair of a
\* memoized node changes only to a pair with a strictly greater version (the
\* first pair counts as greater than none); a cell is stamped with the version
\* of the window that writes it.
C19_VersionsNeverDecrease ==
    [][\A n \in Nodes :
         /\ stored'[n].version >= stored[n].version
         /\ (Kind(n) # "Var" /\ stored'[n] # stored[n])
               => stored'[n].version > stored[n].version
         /\ (Kind(n) = "Var" /\ Created(n) /\ stored'[n] # stored[n])
               => stored'[n].version = version[system_id[n]]]_vars

\* C19 witness: x was written 10 in the window of version 3; w, which held a
\* value committed at version 1, committed again at version 3.
C19_Witness ==
    /\ version[1] = 3
    /\ stored["x"].version = 3
    /\ stored["w"].version = 3
    /\ recomputed["w"] = [at |-> 3, pair |-> stored["w"], produced |-> TRUE]
    /\ stored["w"].value > 20

\* Committing memoized nodes whose update function reads nothing, and the nodes
\* that read only such nodes.
ReadsNothing == {n \in Nodes : Kind(n) # "Var" /\ CommitKind(n) # "none" /\ Deps(n) = <<>>}
ReadsOnlySuch == {n \in Nodes : Deps(n) # <<>> /\ Range(Deps(n)) \subseteq ReadsNothing}

\* C20: a node whose update function reads nothing, and a node that reads only
\* such nodes, commits at every version at which it is recomputed: the producer
\* is invoked and the pair is stored with the system's version, so a fresh
\* node and a finished read carry the system's current version.
C20_NoCutoffWithoutDependency ==
    \A n \in ReadsNothing \cup ReadsOnlySuch :
        /\ recomputed[n].at # None =>
              /\ recomputed[n].produced
              /\ recomputed[n].pair.version = recomputed[n].at
        /\ Fresh(n) =>
              /\ stored[n].version = version[system_id[n]]
              /\ recomputed[n] = [at |-> version[system_id[n]], pair |-> stored[n],
                                  produced |-> TRUE]
        /\ \A t \in Threads :
              OkResult(t, n) => result[t].version = version[result[t].sys]

\* C20 witness: after two windows in a program without cells, e, which reads
\* nothing, and m, which reads e, were read at version 3; both committed at 3.
C20_Witness ==
    /\ version[1] = 3
    /\ result[1] = Ok("m", 1, 3, 8)
    /\ stored["e"] = [version |-> 3, value |-> 7]
    /\ stored["m"] = [version |-> 3, value |-> 8]
    /\ recomputed["m"] = [at |-> 3, pair |-> stored["m"], produced |-> TRUE]
====
